---- MODULE Spec2Model ----
(***************************************************************************)
(* State model of the productivity dashboard's AppProvider (AppContext):   *)
(* the date-keyed record of month and day records, the midnight rollover,  *)
(* the task / month-setup / goal operations, the derived analytics and the *)
(* localStorage persistence, together with the Settings import.            *)
(*                                                                         *)
(* Dates are day numbers (the "YYYY-MM-DD" strings in chronological        *)
(* order), months are MonthOf(date) (the "YYYY-MM" prefix; date 0 is the   *)
(* day MonthPhase of its month), and time is a UTC tick counter with       *)
(* TicksPerDay ticks per day.  The local clock is the UTC clock shifted by *)
(* a fixed offset.  The provider is first mounted on date 1.               *)
(***************************************************************************)
EXTENDS Integers, Sequences, FiniteSets, TLC

VARIABLES
    clock,            \* UTC time in ticks (new Date())
    offset,           \* local time minus UTC, in ticks (the browser's time zone)
    mounted,          \* isMountedRef.current: the provider is mounted
    isLoading,        \* isLoading state
    loadFailed,       \* the catch block of loadData ran at the last load
    data,             \* data state: month -> month record
    goals,            \* goals state: sequence of long-term goals
    currentDate,      \* currentDate state
    currentMonth,     \* currentMonth state
    selectedDate,     \* viewDate / selectedDate state
    initializedDays,  \* initializedDaysRef.current
    midnightAt,       \* local tick at which the pending midnight timeout fires
    calculateStreak,  \* memoized streak (useMemo on [data])
    heatmapData,      \* memoized heatmap (useMemo on [data])
    storage,          \* localStorage: productivityData and goalsData
    lastImport,       \* what handleImport stored since the last load, if anything
    viewMonth,        \* viewMonth state
    viewYear,         \* viewYear state
    showMonthSetup,   \* showMonthSetup state: the Month Setup modal is open
    setupShownForMonth, \* setupShownForMonthRef.current
    settings,         \* PreferencesProvider: settings state
    notifications,    \* PreferencesProvider: notifications state
    prefStorage,      \* localStorage: userPreferences and notifications
    showResetConfirm, \* Settings: the Clear All Data confirmation is armed
    exportFile,       \* the file last written by exportJSON
    exportedGoals,    \* the long-term goals that existed at that export
    emptyInstall,     \* the storage was emptied (another installation) after that export
    bootState,        \* BootProvider: bootState state
    bootError,        \* BootProvider: bootError state is set
    subsystems,       \* BootProvider: subsystems state
    hasBooted,        \* hasBootedRef.current
    bootClock,        \* time since the BootProvider was mounted
    readyTimer        \* the 50 ms ready timeout is pending

coreVars == <<clock, offset, mounted, isLoading, loadFailed, data, goals, currentDate,
              currentMonth, selectedDate, initializedDays, midnightAt,
              calculateStreak, heatmapData, storage, lastImport>>

viewVars == <<viewMonth, viewYear>>

setupVars == <<showMonthSetup, setupShownForMonth>>

prefVars == <<settings, notifications, prefStorage, showResetConfirm>>

backupVars == <<exportFile, exportedGoals, emptyInstall>>

bootVars == <<bootState, bootError, subsystems, hasBooted, bootClock, readyTimer>>

vars == <<coreVars, viewVars, setupVars, prefVars, backupVars, bootVars>>

----------------------------------------------------------------------------
(* Bounds of the model *)

TicksPerDay == 2
MaxTick == 5
MonthLen == 2
MonthPhase == 1
MaxTasks == 1
MaxGoals == 1
YearLen == 1
BootTimeoutTicks == 3
MaxNotifications == 1

(* Program constants *)

StreakCap == 365
StreakThreshold == 50
MinYear == 2020
MaxYear == 2100

----------------------------------------------------------------------------
(* Value spaces *)

FirstTick == TicksPerDay
Dates == 0..(MaxTick \div TicksPerDay)
Offsets == {-1, 0, 1}
NoDate == -1
NoTime == -1
TaskNames == {"t"}
RoutineNames == {"r"}
TaskIds == 1..MaxTasks

UTCDate(t) == t \div TicksPerDay

getTodayDate(t) == UTCDate(t)

MonthOf(d) == (d + MonthPhase) \div MonthLen

getMonthFromDate(dateStr) == MonthOf(dateStr)

getCurrentMonth(t) == getMonthFromDate(getTodayDate(t))

LocalTime(t, off) == t + off

LocalDate(t, off) == LocalTime(t, off) \div TicksPerDay

YearOfMonth(m) == MinYear + (m \div YearLen)

YearOfDate(d) == YearOfMonth(MonthOf(d))

getFullYear(t, off) == YearOfDate(LocalDate(t, off))

DayOfMonth(d) == ((d + MonthPhase) % MonthLen) + 1

getDate(dateStr, off) == DayOfMonth(LocalDate(dateStr * TicksPerDay, off))

NextLocalMidnight(t, off) == ((LocalTime(t, off) \div TicksPerDay) + 1) * TicksPerDay

initMonthData == [routines |-> <<>>, days |-> <<>>, setupComplete |-> FALSE]

initDayData == [tasks |-> <<>>, progress |-> 0, locked |-> FALSE, lockedAt |-> NoTime]

Completed(tasks) == Cardinality({i \in 1..Len(tasks) : tasks[i].completed})

calculateProgress(tasks) ==
    IF Len(tasks) = 0 THEN 0
    ELSE (200 * Completed(tasks) + Len(tasks)) \div (2 * Len(tasks))

(* Object property access and assignment on the nested record *)

Ext(f, k, v) == [x \in (DOMAIN f) \cup {k} |-> IF x = k THEN v ELSE f[x]]

HasMonth(dt, m) == m \in DOMAIN dt

HasDayIn(dt, m, d) == HasMonth(dt, m) /\ d \in DOMAIN dt[m].days

HasDay(dt, d) == HasDayIn(dt, getMonthFromDate(d), d)

DayOf(dt, d) == dt[getMonthFromDate(d)].days[d]

PutDay(dt, m, d, rec) == [dt EXCEPT ![m].days = Ext(@, d, rec)]

EnsureMonth(dt, m) == IF HasMonth(dt, m) THEN dt ELSE Ext(dt, m, initMonthData)

EnsureDay(dt, m, d) == IF HasDayIn(dt, m, d) THEN dt ELSE PutDay(dt, m, d, initDayData)

FilterOutId(tasks, taskId) ==
    LET F[i \in 0..Len(tasks)] ==
            IF i = 0 THEN <<>>
            ELSE IF tasks[i].id # taskId THEN Append(F[i - 1], tasks[i]) ELSE F[i - 1]
    IN F[Len(tasks)]

FreshId(tasks) ==
    CHOOSE n \in 1..(Len(tasks) + 1) :
        /\ \A i \in 1..Len(tasks) : tasks[i].id # n
        /\ \A k \in 1..(n - 1) : \E i \in 1..Len(tasks) : tasks[i].id = k

NewTask(tasks, name, routine) ==
    [id |-> FreshId(tasks), name |-> name, completed |-> FALSE, isRoutine |-> routine]

(* An updater passed to setData yields the next data and whether it is a new
   object (changed) or the previous one (prev), which decides re-rendering. *)

Same(prev) == [data |-> prev, changed |-> FALSE]

Fresh(newData) == [data |-> newData, changed |-> TRUE]

----------------------------------------------------------------------------
(* Updaters of the task operations *)

TaskIndex(tasks, taskId) ==
    CHOOSE i \in 1..Len(tasks) :
        /\ tasks[i].id = taskId
        /\ \A j \in 1..(i - 1) : tasks[j].id # taskId

HasTask(tasks, taskId) == \E i \in 1..Len(tasks) : tasks[i].id = taskId

ObjectAssign(task, updates) ==
    [f \in DOMAIN task |-> IF f \in DOMAIN updates THEN updates[f] ELSE task[f]]

addTaskUpdate(prev, taskName, date) ==
    LET month == getMonthFromDate(date)
        newData == EnsureDay(EnsureMonth(prev, month), month, date)
        day == newData[month].days[date]
        tasks == Append(day.tasks, NewTask(day.tasks, taskName, FALSE))
    IN IF day.locked THEN Same(prev)
       ELSE Fresh(PutDay(newData, month, date,
                [day EXCEPT !.tasks = tasks, !.progress = calculateProgress(tasks)]))

toggleTaskUpdate_NoLockCheck(prev, taskId, date) ==
    LET month == getMonthFromDate(date)
    IN IF ~HasDayIn(prev, month, date) THEN Same(prev)
       ELSE LET day == prev[month].days[date]
            IN IF ~HasTask(day.tasks, taskId) THEN Fresh(prev)
               ELSE LET i == TaskIndex(day.tasks, taskId)
                        tasks == [day.tasks EXCEPT ![i].completed = ~@]
                    IN Fresh(PutDay(prev, month, date,
                         [day EXCEPT !.tasks = tasks,
                                     !.progress = calculateProgress(tasks)]))

toggleTaskUpdate(prev, taskId, date) ==
    LET month == getMonthFromDate(date)
    IN IF ~HasDayIn(prev, month, date) THEN Same(prev)
       ELSE LET day == prev[month].days[date]
            IN IF day.locked THEN Same(prev)
               ELSE IF ~HasTask(day.tasks, taskId) THEN Fresh(prev)
               ELSE LET i == TaskIndex(day.tasks, taskId)
                        tasks == [day.tasks EXCEPT ![i].completed = ~@]
                    IN Fresh(PutDay(prev, month, date,
                         [day EXCEPT !.tasks = tasks,
                                     !.progress = calculateProgress(tasks)]))

editTaskUpdate(prev, taskId, updates, date) ==
    LET month == getMonthFromDate(date)
    IN IF ~HasDayIn(prev, month, date) THEN Same(prev)
       ELSE LET day == prev[month].days[date]
            IN IF day.locked THEN Same(prev)
               ELSE IF ~HasTask(day.tasks, taskId) THEN Fresh(prev)
               ELSE LET i == TaskIndex(day.tasks, taskId)
                        tasks == [day.tasks EXCEPT ![i] = ObjectAssign(@, updates)]
                    IN Fresh(PutDay(prev, month, date, [day EXCEPT !.tasks = tasks]))

deleteTaskUpdate(prev, taskId, date) ==
    LET month == getMonthFromDate(date)
    IN IF ~HasDayIn(prev, month, date) THEN Same(prev)
       ELSE LET day == prev[month].days[date]
                tasks == FilterOutId(day.tasks, taskId)
            IN IF day.locked THEN Same(prev)
               ELSE Fresh(PutDay(prev, month, date,
                        [day EXCEPT !.tasks = tasks,
                                    !.progress = calculateProgress(tasks)]))

(* Updater of lockDay *)

lockDayUpdate(prev, dateStr, now) ==
    LET month == getMonthFromDate(dateStr)
    IN IF HasDayIn(prev, month, dateStr) /\ ~prev[month].days[dateStr].locked
       THEN LET day == prev[month].days[dateStr]
            IN Fresh(PutDay(prev, month, dateStr,
                     [day EXCEPT !.locked = TRUE, !.lockedAt = now,
                                 !.progress = calculateProgress(day.tasks)]))
       ELSE Fresh(prev)

(* Routine tasks pushed onto a task list: every routine of the month (day
   initialization), or only those no routine task of the list names yet
   (setRoutineTasks). *)

HasRoutineTask(tasks, name) ==
    \E i \in 1..Len(tasks) : tasks[i].isRoutine /\ tasks[i].name = name

PushRoutines(tasks, routines, onlyMissing) ==
    LET F[i \in 0..Len(routines)] ==
            IF i = 0 THEN tasks
            ELSE IF onlyMissing /\ HasRoutineTask(F[i - 1], routines[i]) THEN F[i - 1]
            ELSE Append(F[i - 1], NewTask(F[i - 1], routines[i], TRUE))
    IN F[Len(routines)]

(* Updater of the day/month initialization effect *)

dayInitUpdate(prev, month, date) ==
    LET needsMonthInit == ~HasMonth(prev, month)
        needsDayInit == ~HasDayIn(prev, month, date)
        newData == EnsureMonth(prev, month)
        tasks == PushRoutines(<<>>, newData[month].routines, FALSE)
    IN IF ~needsMonthInit /\ ~needsDayInit THEN Same(prev)
       ELSE Fresh(PutDay(newData, month, date, [initDayData EXCEPT !.tasks = tasks]))

(* Updaters of the monthly setup *)

setRoutineTasksUpdate(prev, routines, month, date) ==
    LET withMonth == EnsureMonth(prev, month)
        newData == [withMonth EXCEPT ![month].routines = routines,
                                     ![month].setupComplete = TRUE]
    IN IF HasDayIn(newData, month, date) /\ ~newData[month].days[date].locked
       THEN LET today == newData[month].days[date]
                tasks == PushRoutines(today.tasks, routines, TRUE)
            IN Fresh(PutDay(newData, month, date,
                     [today EXCEPT !.tasks = tasks,
                                   !.progress = calculateProgress(tasks)]))
       ELSE Fresh(newData)

skipMonthSetupUpdate(prev, month) ==
    Fresh([EnsureMonth(prev, month) EXCEPT ![month].setupComplete = TRUE])

----------------------------------------------------------------------------
(* Long-term goals *)

NewGoal(gs, endDate) ==
    [id |-> Len(gs) + 1, endDate |-> endDate, state |-> "active"]

expireGoals(gs, today) ==
    [i \in 1..Len(gs) |->
        IF gs[i].state = "active" /\ gs[i].endDate # NoDate /\ gs[i].endDate < today
        THEN [gs[i] EXCEPT !.state = "expired"]
        ELSE gs[i]]

----------------------------------------------------------------------------
(* Derived analytics *)

RECURSIVE StreakLoop(_, _, _)
StreakLoop(dt, checkDate, streak) ==
    IF ~(streak < StreakCap) THEN streak
    ELSE IF ~HasDay(dt, checkDate) THEN streak
    ELSE IF DayOf(dt, checkDate).progress < StreakThreshold THEN streak
    ELSE StreakLoop(dt, checkDate - 1, streak + 1)

StreakMemo(dt, now) == StreakLoop(dt, UTCDate(now) - 1, 0)

HeatmapEntry_Recomputed(dayData) ==
    [progress |-> calculateProgress(dayData.tasks),
     tasks |-> Len(dayData.tasks),
     completed |-> Completed(dayData.tasks),
     locked |-> dayData.locked]

HeatmapEntry(dayData) ==
    [progress |-> dayData.progress,
     tasks |-> Len(dayData.tasks),
     completed |-> Completed(dayData.tasks),
     locked |-> dayData.locked]

HeatmapMemo(dt) ==
    LET dates == UNION {DOMAIN dt[m].days : m \in DOMAIN dt}
        LastMonth(d) == CHOOSE m \in DOMAIN dt :
                            /\ d \in DOMAIN dt[m].days
                            /\ \A k \in DOMAIN dt : d \in DOMAIN dt[k].days => k <= m
    IN [d \in dates |-> HeatmapEntry(dt[LastMonth(d)].days[d])]

isLocked(dateStr) ==
    IF dateStr = NoDate THEN TRUE
    ELSE IF dateStr = currentDate THEN FALSE
    ELSE (HasDay(data, dateStr) /\ DayOf(data, dateStr).locked) \/ dateStr < currentDate

----------------------------------------------------------------------------
(* localStorage items and the JSON conversions.  An item is absent, text that
   does not parse, or the JSON text of a value. *)

Absent == [kind |-> "absent", val |-> <<>>]

Corrupt == [kind |-> "corrupt", val |-> <<>>]

NoImport == Absent

JSONstringify(v) == [kind |-> "json", val |-> v]

Throws(item) == item.kind = "corrupt"

JSONparse(item) == item.val

(* loadData: what the try block sets before it ends or throws *)

LoadedData(st) ==
    IF st.productivityData.kind = "json" THEN JSONparse(st.productivityData) ELSE <<>>

LoadedGoals(st) ==
    IF ~Throws(st.productivityData) /\ st.goalsData.kind = "json"
    THEN JSONparse(st.goalsData) ELSE <<>>

LoadThrows(st) ==
    Throws(st.productivityData) \/ Throws(st.goalsData)

(* The persistence effects *)

SaveData(st, dt, loading) ==
    IF ~loading /\ DOMAIN dt # {}
    THEN [st EXCEPT !.productivityData = JSONstringify(dt)]
    ELSE st

SaveGoals_InvertedGuard(st, gs, loading, isMounted) ==
    IF loading /\ isMounted
    THEN [st EXCEPT !.goalsData = JSONstringify(gs)]
    ELSE st

SaveGoals(st, gs, loading, isMounted) ==
    IF ~loading /\ isMounted
    THEN [st EXCEPT !.goalsData = JSONstringify(gs)]
    ELSE st

(* A render after setData: the memos and the save effect run when data is a
   new object, and not when the updater returned the previous one. *)

Memos(r, now) ==
    /\ data' = r.data
    /\ calculateStreak' = IF r.changed THEN StreakMemo(r.data, now) ELSE calculateStreak
    /\ heatmapData' = IF r.changed THEN HeatmapMemo(r.data) ELSE heatmapData

Persisted(r, st, loading) ==
    IF r.changed THEN SaveData(st, r.data, loading) ELSE st

Render(r, now) ==
    /\ Memos(r, now)
    /\ storage' = Persisted(r, storage, isLoading)

----------------------------------------------------------------------------
(* The Month Setup modal effect: once per month and provider, it opens the
   modal when the month is not set up and the current date, read back as a
   local Date, is day 1. *)

MonthSetupRuns(loading, month, shown) == ~loading /\ month \notin shown

AutoOpens(dt, month, date, off) ==
    /\ HasMonth(dt, month)
    /\ ~dt[month].setupComplete
    /\ getDate(date, off) = 1

MonthSetupEffect(loading, dt, month, date) ==
    LET runs == MonthSetupRuns(loading, month, setupShownForMonth)
    IN /\ setupShownForMonth' = IF runs THEN setupShownForMonth \cup {month}
                                 ELSE setupShownForMonth
       /\ showMonthSetup' = IF runs /\ AutoOpens(dt, month, date, offset) THEN TRUE
                             ELSE showMonthSetup

----------------------------------------------------------------------------
(* Navigation input: a text is the sequence of its characters *)

NaN == -1

isNaN(n) == n = NaN

DigitChars == <<"0", "1", "2", "3", "4", "5", "6", "7", "8", "9">>

IsDigit(c) == \E i \in 1..Len(DigitChars) : DigitChars[i] = c

DigitValue(c) == (CHOOSE i \in 1..Len(DigitChars) : DigitChars[i] = c) - 1

RECURSIVE DigitsValue(_)
DigitsValue(t) ==
    IF Len(t) = 0 THEN 0
    ELSE 10 * DigitsValue(SubSeq(t, 1, Len(t) - 1)) + DigitValue(t[Len(t)])

RECURSIVE DigitPrefixLen(_)
DigitPrefixLen(t) ==
    IF Len(t) = 0 \/ ~IsDigit(t[1]) THEN 0
    ELSE 1 + DigitPrefixLen(Tail(t))

(* parseInt of a text without white space or sign: the value of the longest
   prefix of digits, NaN when there is none *)

parseInt(t) ==
    IF DigitPrefixLen(t) = 0 THEN NaN
    ELSE DigitsValue(SubSeq(t, 1, DigitPrefixLen(t)))

RECURSIVE SplitFirst(_)
SplitFirst(t) ==
    IF Len(t) = 0 \/ t[1] = "-" THEN <<>>
    ELSE <<t[1]>> \o SplitFirst(Tail(t))

TwoDigits(n) == <<DigitChars[((n \div 10) % 10) + 1], DigitChars[(n % 10) + 1]>>

FourDigits(n) == TwoDigits(n \div 100) \o TwoDigits(n)

MatchesMonthKey(t) ==
    /\ Len(t) = 7
    /\ \A i \in {1, 2, 3, 4, 6, 7} : IsDigit(t[i])
    /\ t[5] = "-"

MatchesDateStr(t) ==
    /\ Len(t) = 10
    /\ \A i \in {1, 2, 3, 4, 6, 7, 9, 10} : IsDigit(t[i])
    /\ t[5] = "-"
    /\ t[8] = "-"

(* The 'YYYY-MM' and 'YYYY-MM-DD' texts of the model's months and dates *)

Months == {MonthOf(d) : d \in Dates}

MonthKeyText(m) == FourDigits(YearOfMonth(m)) \o <<"-">> \o TwoDigits((m % YearLen) + 1)

DateText(d) == MonthKeyText(MonthOf(d)) \o <<"-">> \o TwoDigits(DayOfMonth(d))

MonthOfKey(t) == CHOOSE m \in Months : MonthKeyText(m) = t

DateOfText(t) == CHOOSE d \in Dates : DateText(d) = t

----------------------------------------------------------------------------
(* Preferences *)

defaultSettings == [theme |-> "light", notifications |-> [enabled |-> TRUE]]

LoadedSettings(ps) ==
    IF ps.userPreferences.kind = "json" THEN JSONparse(ps.userPreferences)
    ELSE defaultSettings

LoadedNotifications(ps) ==
    IF ps.notifications.kind = "json" THEN JSONparse(ps.notifications) ELSE <<>>

SavePreferences(ps, st, ns) ==
    [userPreferences |-> JSONstringify(st), notifications |-> JSONstringify(ns)]

----------------------------------------------------------------------------
(* Boot sequence *)

BOOTING == "booting"

READY == "ready"

ERROR == "error"

Subsystems == {"user", "data", "preferences", "datetime"}

MountedSubsystems == [s \in Subsystems |-> s \in {"preferences", "datetime"}]

allSubsystemsReady_Some(subs) == \E s \in Subsystems : subs[s]

allSubsystemsReady(subs) == \A s \in Subsystems : subs[s]

BootMount ==
    /\ bootState' = BOOTING
    /\ bootError' = FALSE
    /\ subsystems' = MountedSubsystems
    /\ hasBooted' = FALSE
    /\ bootClock' = 0
    /\ readyTimer' = FALSE

(* markSubsystemReady with the effect that follows the new subsystems: once all
   are ready while booting, the 50 ms transition timeout is set *)

markSubsystemReady(subsystem) ==
    /\ subsystems' = [subsystems EXCEPT ![subsystem] = TRUE]
    /\ readyTimer' = IF allSubsystemsReady(subsystems') /\ bootState = BOOTING
                     THEN TRUE
                     ELSE readyTimer
    /\ UNCHANGED <<bootState, bootError, hasBooted, bootClock>>

(* App marks 'data' when AppProvider reports isDataReady *)

DataReadyEffect(loading) ==
    IF loading THEN UNCHANGED bootVars ELSE markSubsystemReady("data")

(* UserProvider's getSession settles, resolved or rejected, and App marks 'user' *)

UserInitialized ==
    /\ mounted
    /\ ~subsystems["user"]
    /\ markSubsystemReady("user")
    /\ UNCHANGED <<coreVars, viewVars, setupVars, prefVars, backupVars>>

(* The body shared by the timeouts and forceReady; the change of bootState
   re-runs the transition effect, whose cleanup clears its timeout *)

BecomeReady ==
    IF ~hasBooted
    THEN /\ hasBooted' = TRUE
         /\ bootState' = READY
         /\ readyTimer' = FALSE
    ELSE UNCHANGED <<hasBooted, bootState, readyTimer>>

ReadyTimeout ==
    /\ mounted
    /\ readyTimer
    /\ IF ~hasBooted
       THEN BecomeReady
       ELSE readyTimer' = FALSE /\ UNCHANGED <<hasBooted, bootState>>
    /\ UNCHANGED <<bootError, subsystems, bootClock>>
    /\ UNCHANGED <<coreVars, viewVars, setupVars, prefVars, backupVars>>

BootTimeoutApplies_Never(state, booted) == FALSE

BootTimeoutApplies(state, booted) == state = BOOTING /\ ~booted

(* Time passes on the pending boot timeout, which fires at BOOT_TIMEOUT *)

BootTick ==
    /\ mounted
    /\ bootState = BOOTING
    /\ bootClock < BootTimeoutTicks
    /\ bootClock' = bootClock + 1
    /\ IF bootClock' = BootTimeoutTicks /\ BootTimeoutApplies(bootState, hasBooted)
       THEN BecomeReady
       ELSE UNCHANGED <<hasBooted, bootState, readyTimer>>
    /\ UNCHANGED <<bootError, subsystems>>
    /\ UNCHANGED <<coreVars, viewVars, setupVars, prefVars, backupVars>>

forceReady ==
    /\ mounted
    /\ BecomeReady
    /\ UNCHANGED <<bootError, subsystems, bootClock>>
    /\ UNCHANGED <<coreVars, viewVars, setupVars, prefVars, backupVars>>

handleBootError ==
    /\ mounted
    /\ bootError' = TRUE
    /\ BecomeReady
    /\ UNCHANGED <<subsystems, bootClock>>
    /\ UNCHANGED <<coreVars, viewVars, setupVars, prefVars, backupVars>>

isError(state) == state = ERROR

----------------------------------------------------------------------------
(* Inputs *)

Routines == {<<>>} \cup {<<n>> : n \in RoutineNames}

TaskUpdates == {[completed |-> TRUE], [completed |-> FALSE]}

BackupData ==
    (0 :> [routines |-> <<>>,
           days |-> (0 :> [tasks |-> <<[id |-> 1, name |-> "t", completed |-> TRUE,
                                        isRoutine |-> FALSE]>>,
                           progress |-> 100, locked |-> FALSE, lockedAt |-> NoTime]),
           setupComplete |-> TRUE])

ImportFiles == {Corrupt, JSONstringify(BackupData)}

StoredItems == {Absent, Corrupt}

GoalEndDates == {1}

----------------------------------------------------------------------------
(* Initial state: the provider has just been mounted *)

Init ==
    /\ clock = FirstTick
    /\ offset \in Offsets
    /\ mounted = TRUE
    /\ isLoading = TRUE
    /\ loadFailed = FALSE
    /\ data = <<>>
    /\ goals = <<>>
    /\ currentDate = getTodayDate(clock)
    /\ currentMonth = getCurrentMonth(clock)
    /\ selectedDate = getTodayDate(clock)
    /\ initializedDays = {}
    /\ midnightAt = NextLocalMidnight(clock, offset)
    /\ calculateStreak = StreakMemo(<<>>, clock)
    /\ heatmapData = HeatmapMemo(<<>>)
    /\ storage \in [productivityData : StoredItems, goalsData : StoredItems]
    /\ lastImport = NoImport
    /\ viewMonth = getCurrentMonth(clock)
    /\ viewYear = getFullYear(clock, offset)
    /\ showMonthSetup = FALSE
    /\ setupShownForMonth = {}
    /\ settings = defaultSettings
    /\ notifications = <<>>
    /\ prefStorage = SavePreferences(<<>>, defaultSettings, <<>>)
    /\ showResetConfirm = FALSE
    /\ exportFile = Absent
    /\ exportedGoals = <<>>
    /\ emptyInstall = FALSE
    /\ bootState = BOOTING
    /\ bootError = FALSE
    /\ subsystems = MountedSubsystems
    /\ hasBooted = FALSE
    /\ bootClock = 0
    /\ readyTimer = FALSE

----------------------------------------------------------------------------
(* Page life cycle and time *)

OpenApp ==
    /\ ~mounted
    /\ mounted' = TRUE
    /\ isLoading' = TRUE
    /\ currentDate' = getTodayDate(clock)
    /\ currentMonth' = getCurrentMonth(clock)
    /\ selectedDate' = getTodayDate(clock)
    /\ midnightAt' = NextLocalMidnight(clock, offset)
    /\ calculateStreak' = StreakMemo(data, clock)
    /\ heatmapData' = HeatmapMemo(data)
    /\ viewMonth' = getCurrentMonth(clock)
    /\ viewYear' = getFullYear(clock, offset)
    /\ showMonthSetup' = FALSE
    /\ setupShownForMonth' = {}
    /\ settings' = LoadedSettings(prefStorage)
    /\ notifications' = LoadedNotifications(prefStorage)
    /\ prefStorage' = SavePreferences(prefStorage, LoadedSettings(prefStorage),
                                      LoadedNotifications(prefStorage))
    /\ showResetConfirm' = FALSE
    /\ BootMount
    /\ UNCHANGED <<clock, offset, loadFailed, data, goals, initializedDays, storage,
                   lastImport>>
    /\ UNCHANGED backupVars

CloseApp ==
    /\ mounted
    /\ mounted' = FALSE
    /\ isLoading' = TRUE
    /\ loadFailed' = FALSE
    /\ data' = <<>>
    /\ goals' = <<>>
    /\ currentDate' = NoDate
    /\ currentMonth' = NoDate
    /\ selectedDate' = NoDate
    /\ initializedDays' = {}
    /\ midnightAt' = 0
    /\ calculateStreak' = 0
    /\ heatmapData' = <<>>
    /\ viewMonth' = NoDate
    /\ viewYear' = NoDate
    /\ showMonthSetup' = FALSE
    /\ setupShownForMonth' = {}
    /\ settings' = defaultSettings
    /\ notifications' = <<>>
    /\ showResetConfirm' = FALSE
    /\ BootMount
    /\ UNCHANGED <<clock, offset, storage, lastImport, prefStorage>>
    /\ UNCHANGED backupVars

ClockTick ==
    /\ clock < MaxTick
    /\ mounted => LocalTime(clock + 1, offset) < midnightAt
    /\ clock' = clock + 1
    /\ UNCHANGED <<offset, mounted, isLoading, loadFailed, data, goals, currentDate,
                   currentMonth, selectedDate, initializedDays, midnightAt,
                   calculateStreak, heatmapData, storage, lastImport>>
    /\ UNCHANGED <<viewVars, setupVars, prefVars, backupVars, bootVars>>

LoadingAfterLoad_InsideTry(st) == LoadThrows(st)

LoadingAfterLoad(st) == FALSE

LoadData ==
    /\ mounted
    /\ isLoading
    /\ LET d0 == LoadedData(storage)
           g0 == LoadedGoals(storage)
           dataSet == storage.productivityData.kind = "json"
           loading == LoadingAfterLoad(storage)
           st1 == SaveGoals(SaveData(storage, d0, loading), g0, loading, mounted)
           dayKey == <<currentMonth, currentDate>>
           runInit == ~loading /\ dayKey \notin initializedDays
           r == IF runInit THEN dayInitUpdate(d0, currentMonth, currentDate)
                ELSE Same(d0)
           g1 == IF loading THEN g0 ELSE expireGoals(g0, getTodayDate(clock))
           st2 == Persisted(r, st1, loading)
       IN /\ Memos([data |-> r.data, changed |-> dataSet \/ r.changed], clock)
          /\ goals' = g1
          /\ storage' = SaveGoals(st2, g1, loading, mounted)
          /\ initializedDays' = IF runInit THEN initializedDays \cup {dayKey}
                                ELSE initializedDays
          /\ isLoading' = loading
          /\ MonthSetupEffect(loading, r.data, currentMonth, currentDate)
          /\ DataReadyEffect(loading)
    /\ loadFailed' = LoadThrows(storage)
    /\ lastImport' = NoImport
    /\ UNCHANGED <<clock, offset, mounted, currentDate, currentMonth, selectedDate,
                   midnightAt>>
    /\ UNCHANGED <<viewVars, prefVars, backupVars>>

----------------------------------------------------------------------------
(* Midnight rollover: the timeout set by scheduleMidnight fires at the local
   midnight it was scheduled for, runs handleMidnight and schedules the next. *)

handleMidnightDate(now) == getTodayDate(now)

MidnightTimer ==
    /\ mounted
    /\ clock < MaxTick
    /\ LocalTime(clock + 1, offset) >= midnightAt
    /\ clock' = clock + 1
    /\ LET now == clock + 1
           prevDate == currentDate
           locked == lockDayUpdate(data, prevDate, now)
           newDate == handleMidnightDate(now)
           newMonth == getMonthFromDate(newDate)
           st1 == Persisted(locked, storage, isLoading)
           dayKey == <<newMonth, newDate>>
           r == IF ~isLoading /\ dayKey \notin initializedDays
                THEN dayInitUpdate(locked.data, newMonth, newDate)
                ELSE Same(locked.data)
           expire == ~isLoading /\ newDate # currentDate
           g1 == IF expire THEN expireGoals(goals, getTodayDate(now)) ELSE goals
           st2 == Persisted(r, st1, isLoading)
       IN /\ Memos(Fresh(r.data), now)
          /\ goals' = g1
          /\ storage' = IF expire THEN SaveGoals(st2, g1, isLoading, mounted) ELSE st2
          /\ initializedDays' = IF isLoading THEN initializedDays
                                ELSE initializedDays \cup {dayKey}
          /\ currentDate' = newDate
          /\ currentMonth' = newMonth
          /\ selectedDate' = newDate
          /\ midnightAt' = NextLocalMidnight(now, offset)
          /\ MonthSetupEffect(isLoading, r.data, newMonth, newDate)
    /\ UNCHANGED <<offset, mounted, isLoading, loadFailed, lastImport>>
    /\ UNCHANGED <<viewVars, prefVars, backupVars, bootVars>>

----------------------------------------------------------------------------
(* Task operations, called while the UI is past its loading screen *)

TotalTasks(dt) ==
    LET days == {<<m, d>> \in (DOMAIN dt) \X Dates : d \in DOMAIN dt[m].days}
        Sum[S \in SUBSET days] ==
            IF S = {} THEN 0
            ELSE LET k == CHOOSE x \in S : TRUE
                 IN Len(dt[k[1]].days[k[2]].tasks) + Sum[S \ {k}]
    IN Sum[days]

Target(targetDate) == IF targetDate # NoDate THEN targetDate ELSE selectedDate

Ready == mounted /\ ~isLoading

DataOnly == <<clock, offset, mounted, isLoading, loadFailed, goals, currentDate,
              currentMonth, selectedDate, initializedDays, midnightAt, lastImport,
              viewVars, setupShownForMonth, prefVars, backupVars, bootVars>>

SelectDate(dateStr) ==
    /\ Ready
    /\ selectedDate' = dateStr
    /\ UNCHANGED <<clock, offset, mounted, isLoading, loadFailed, data, goals,
                   currentDate, currentMonth, initializedDays, midnightAt,
                   calculateStreak, heatmapData, storage, lastImport>>
    /\ UNCHANGED <<viewVars, setupVars, prefVars, backupVars, bootVars>>

(* The unified navigation functions; an input is a number or a text *)

YearTexts ==
    {FourDigits(MinYear - 1), FourDigits(MinYear), FourDigits(MinYear + 1),
     FourDigits(MinYear) \o <<"a">>, FourDigits(MinYear + 1) \o <<"a">>,
     <<"a">>, <<>>}

YearNumbers == {MinYear - 1, MinYear, MinYear + 1, MaxYear, MaxYear + 1}

YearInputs ==
    [isString : {TRUE}, text : YearTexts, num : {0}]
        \cup [isString : {FALSE}, text : {<<>>}, num : YearNumbers]

MonthInputs ==
    {MonthKeyText(m) : m \in Months}
        \cup {<<>>, <<"a">>, DateText(0), MonthKeyText(0) \o <<"a">>,
              SubSeq(MonthKeyText(0), 1, 6)}

DateInputs ==
    {DateText(d) : d \in Dates}
        \cup {<<>>, <<"a">>, MonthKeyText(0), DateText(0) \o <<"a">>,
              SubSeq(DateText(0), 1, 9)}

NavOnly == <<clock, offset, mounted, isLoading, loadFailed, data, goals,
             currentDate, currentMonth, initializedDays, midnightAt,
             calculateStreak, heatmapData, storage, lastImport, setupVars,
             prefVars, backupVars, bootVars>>

navigateToYear(year) ==
    /\ mounted
    /\ LET numYear == IF year.isString THEN parseInt(year.text) ELSE year.num
       IN viewYear' = IF isNaN(numYear) \/ numYear < MinYear \/ numYear > MaxYear
                      THEN viewYear
                      ELSE numYear
    /\ UNCHANGED <<viewMonth, selectedDate, NavOnly>>

navigateToMonth(monthKey) ==
    /\ mounted
    /\ IF Len(monthKey) = 0 \/ ~MatchesMonthKey(monthKey)
       THEN UNCHANGED <<viewMonth, viewYear>>
       ELSE LET year == parseInt(SplitFirst(monthKey))
            IN /\ viewMonth' = MonthOfKey(monthKey)
               /\ viewYear' = IF ~isNaN(year) THEN year ELSE viewYear
    /\ UNCHANGED <<selectedDate, NavOnly>>

selectDate(dateStr) ==
    /\ mounted
    /\ IF Len(dateStr) = 0 \/ ~MatchesDateStr(dateStr)
       THEN UNCHANGED <<selectedDate, viewMonth, viewYear>>
       ELSE LET monthKey == SubSeq(dateStr, 1, 7)
                year == parseInt(SplitFirst(dateStr))
            IN /\ selectedDate' = DateOfText(dateStr)
               /\ viewMonth' = MonthOfKey(monthKey)
               /\ viewYear' = IF ~isNaN(year) THEN year ELSE viewYear
    /\ UNCHANGED NavOnly

resetToToday ==
    /\ mounted
    /\ selectedDate' = getTodayDate(clock)
    /\ viewMonth' = getCurrentMonth(clock)
    /\ viewYear' = getFullYear(clock, offset)
    /\ UNCHANGED NavOnly

(* A click on a day of the dashboard calendar, which lists the days of
   currentMonth *)

CalendarClick ==
    \E d \in Dates : getMonthFromDate(d) = currentMonth /\ SelectDate(d)

AddTask(taskName, targetDate) ==
    /\ Ready
    /\ TotalTasks(data) < MaxTasks
    /\ Render(addTaskUpdate(data, taskName, Target(targetDate)), clock)
    /\ UNCHANGED <<DataOnly, showMonthSetup>>

ToggleTask(taskId, targetDate) ==
    /\ Ready
    /\ Render(toggleTaskUpdate(data, taskId, Target(targetDate)), clock)
    /\ UNCHANGED <<DataOnly, showMonthSetup>>

EditTask(taskId, updates, targetDate) ==
    /\ Ready
    /\ Render(editTaskUpdate(data, taskId, updates, Target(targetDate)), clock)
    /\ UNCHANGED <<DataOnly, showMonthSetup>>

DeleteTask(taskId, targetDate) ==
    /\ Ready
    /\ Render(deleteTaskUpdate(data, taskId, Target(targetDate)), clock)
    /\ UNCHANGED <<DataOnly, showMonthSetup>>

LockDay(dateStr) ==
    /\ Ready
    /\ Render(lockDayUpdate(data, dateStr, clock), clock)
    /\ UNCHANGED <<DataOnly, showMonthSetup>>

SetRoutineTasks(routines) ==
    /\ Ready
    /\ Render(setRoutineTasksUpdate(data, routines, currentMonth, currentDate), clock)
    /\ showMonthSetup' = FALSE
    /\ UNCHANGED DataOnly

SkipMonthSetup ==
    /\ Ready
    /\ Render(skipMonthSetupUpdate(data, currentMonth), clock)
    /\ showMonthSetup' = FALSE
    /\ UNCHANGED DataOnly

AddGoal(endDate) ==
    /\ Ready
    /\ Len(goals) < MaxGoals
    /\ goals' = Append(goals, NewGoal(goals, endDate))
    /\ storage' = SaveGoals(storage, Append(goals, NewGoal(goals, endDate)),
                            isLoading, mounted)
    /\ UNCHANGED <<clock, offset, mounted, isLoading, loadFailed, data, currentDate,
                   currentMonth, selectedDate, initializedDays, midnightAt,
                   calculateStreak, heatmapData, lastImport>>
    /\ UNCHANGED <<viewVars, setupVars, prefVars, backupVars, bootVars>>

(* GoalModal submits an edit: updateGoal spreads the form's fields, the end
   date among them, over the goal and leaves its state as it is *)

UpdateGoal(goalId, endDate) ==
    /\ Ready
    /\ \E i \in 1..Len(goals) : goals[i].id = goalId
    /\ LET gs == [i \in 1..Len(goals) |->
                    IF goals[i].id = goalId
                    THEN [goals[i] EXCEPT !.endDate = endDate]
                    ELSE goals[i]]
       IN /\ goals' = gs
          /\ storage' = SaveGoals(storage, gs, isLoading, mounted)
    /\ UNCHANGED <<clock, offset, mounted, isLoading, loadFailed, data, currentDate,
                   currentMonth, selectedDate, initializedDays, midnightAt,
                   calculateStreak, heatmapData, lastImport>>
    /\ UNCHANGED <<viewVars, setupVars, prefVars, backupVars, bootVars>>

(* Settings: import of a backup file *)

Import(file) ==
    /\ Ready
    /\ IF Throws(file)
       THEN UNCHANGED <<storage, lastImport>>
       ELSE /\ storage' = [storage EXCEPT
                              !.productivityData = JSONstringify(JSONparse(file))]
            /\ lastImport' = JSONstringify(JSONparse(file))
    /\ UNCHANGED <<clock, offset, mounted, isLoading, loadFailed, data, goals,
                   currentDate, currentMonth, selectedDate, initializedDays,
                   midnightAt, calculateStreak, heatmapData>>
    /\ UNCHANGED <<viewVars, setupVars, prefVars, backupVars, bootVars>>

(* Preferences operations *)

Themes == {"light", "dark"}

updateSettings(theme) ==
    /\ Ready
    /\ settings' = [settings EXCEPT !.theme = theme]
    /\ prefStorage' = [prefStorage EXCEPT
                           !.userPreferences = JSONstringify(settings')]
    /\ UNCHANGED <<coreVars, viewVars, setupVars, notifications, showResetConfirm,
                   backupVars, bootVars>>

addNotification ==
    /\ Ready
    /\ Len(notifications) < MaxNotifications
    /\ notifications' = <<[id |-> Len(notifications) + 1, read |-> FALSE]>>
                             \o notifications
    /\ prefStorage' = [prefStorage EXCEPT
                           !.notifications = JSONstringify(notifications')]
    /\ UNCHANGED <<coreVars, viewVars, setupVars, settings, showResetConfirm,
                   backupVars, bootVars>>

(* resetAll: both keys are removed, then the save effects run for the states
   that changed.  setNotifications([]) always stores a new array; setSettings
   (defaultSettings) changes nothing when settings already is that object,
   which a settings value equal to the defaults may or may not be. *)

resetAllStorage ==
    {[userPreferences |-> up, notifications |-> JSONstringify(<<>>)] :
        up \in IF settings = defaultSettings
                THEN {Absent, JSONstringify(defaultSettings)}
                ELSE {JSONstringify(defaultSettings)}}

ClearConfirmed_Always(armed) == TRUE

ClearConfirmed(armed) == armed

(* Settings: the Clear All Data button *)

handleClearData ==
    /\ Ready
    /\ IF ClearConfirmed(showResetConfirm)
       THEN /\ settings' = defaultSettings
            /\ notifications' = <<>>
            /\ prefStorage' \in resetAllStorage
            /\ storage' = [storage EXCEPT !.productivityData = Absent]
            /\ showResetConfirm' = FALSE
       ELSE /\ showResetConfirm' = TRUE
            /\ UNCHANGED <<settings, notifications, prefStorage, storage>>
    /\ UNCHANGED <<clock, offset, mounted, isLoading, loadFailed, data, goals,
                   currentDate, currentMonth, selectedDate, initializedDays,
                   midnightAt, calculateStreak, heatmapData, lastImport>>
    /\ UNCHANGED <<viewVars, setupVars, backupVars, bootVars>>

(* Leaving the Settings view unmounts it and drops its confirmation state *)

LeaveSettings ==
    /\ Ready
    /\ showResetConfirm
    /\ showResetConfirm' = FALSE
    /\ UNCHANGED <<coreVars, viewVars, setupVars, settings, notifications,
                   prefStorage, backupVars, bootVars>>

(* Settings: export of a JSON backup, and moving to an installation whose
   localStorage is empty *)

ExportJSON ==
    /\ Ready
    /\ exportFile' = JSONstringify(data)
    /\ exportedGoals' = goals
    /\ emptyInstall' = FALSE
    /\ UNCHANGED <<coreVars, viewVars, setupVars, prefVars, bootVars>>

NewInstallation ==
    /\ ~mounted
    /\ exportFile # Absent
    /\ ~emptyInstall
    /\ storage' = [productivityData |-> Absent, goalsData |-> Absent]
    /\ prefStorage' = [userPreferences |-> Absent, notifications |-> Absent]
    /\ lastImport' = NoImport
    /\ emptyInstall' = TRUE
    /\ UNCHANGED <<clock, offset, mounted, isLoading, loadFailed, data, goals,
                   currentDate, currentMonth, selectedDate, initializedDays,
                   midnightAt, calculateStreak, heatmapData>>
    /\ UNCHANGED <<viewVars, setupVars, settings, notifications, showResetConfirm,
                   exportFile, exportedGoals, bootVars>>

ImportBackup ==
    /\ exportFile # Absent
    /\ Import(exportFile)

----------------------------------------------------------------------------

TaskOp ==
    \/ \E n \in TaskNames, td \in Dates \cup {NoDate} : AddTask(n, td)
    \/ \E id \in TaskIds, td \in Dates \cup {NoDate} : ToggleTask(id, td)
    \/ \E id \in TaskIds, u \in TaskUpdates, td \in Dates \cup {NoDate} :
           EditTask(id, u, td)
    \/ \E id \in TaskIds, td \in Dates \cup {NoDate} : DeleteTask(id, td)

Next ==
    \/ OpenApp
    \/ CloseApp
    \/ ClockTick
    \/ LoadData
    \/ MidnightTimer
    \/ \E d \in Dates : SelectDate(d)
    \/ \E n \in TaskNames, td \in Dates \cup {NoDate} : AddTask(n, td)
    \/ \E id \in TaskIds, td \in Dates \cup {NoDate} : ToggleTask(id, td)
    \/ \E id \in TaskIds, u \in TaskUpdates, td \in Dates \cup {NoDate} :
           EditTask(id, u, td)
    \/ \E id \in TaskIds, td \in Dates \cup {NoDate} : DeleteTask(id, td)
    \/ \E rs \in Routines : SetRoutineTasks(rs)

(* The operations the components call on tasks, routines and the calendar, in
   every time zone of Offsets *)

Spec == Init /\ [][Next]_vars

InitUTC == Init /\ offset = 0

(* The same in the UTC time zone with lockDay called on any date, the current
   one included, as the context value exposes it *)

NextLock ==
    \/ Next
    \/ \E d \in Dates : LockDay(d)

SpecLock == InitUTC /\ [][NextLock]_vars

(* The provider's operations with long-term goals and the Settings import,
   which only touch what is persisted, in the UTC time zone *)

NextStore ==
    \/ Next
    \/ \E e \in GoalEndDates : AddGoal(e)
    \/ \E f \in ImportFiles : Import(f)

SpecStore == InitUTC /\ [][NextStore]_vars

(* loadData runs from a 10 ms timeout set at mount, which the browser fires
   unless the provider is unmounted first *)

SpecStoreFair == SpecStore /\ WF_vars(LoadData)

(* The Settings page beside the provider, in the UTC time zone *)

NextClear ==
    \/ OpenApp
    \/ CloseApp
    \/ ClockTick
    \/ LoadData
    \/ MidnightTimer
    \/ \E n \in TaskNames : AddTask(n, NoDate)
    \/ \E id \in TaskIds : ToggleTask(id, NoDate)
    \/ \E id \in TaskIds : DeleteTask(id, NoDate)
    \/ \E rs \in Routines : SetRoutineTasks(rs)
    \/ \E f \in ImportFiles : Import(f)
    \/ \E th \in Themes : updateSettings(th)
    \/ addNotification
    \/ handleClearData
    \/ LeaveSettings

SpecClear == InitUTC /\ [][NextClear]_vars

(* Export and import of backups between installations, at a fixed time *)

NextBackup ==
    \/ OpenApp
    \/ CloseApp
    \/ LoadData
    \/ \E n \in TaskNames : AddTask(n, NoDate)
    \/ \E id \in TaskIds : ToggleTask(id, NoDate)
    \/ \E e \in GoalEndDates : AddGoal(e)
    \/ ExportJSON
    \/ ImportBackup
    \/ NewInstallation

SpecBackup == InitUTC /\ [][NextBackup]_vars

(* Navigation of the view, in every time zone of Offsets *)

NextNav ==
    \/ OpenApp
    \/ CloseApp
    \/ ClockTick
    \/ LoadData
    \/ MidnightTimer
    \/ \E y \in YearInputs : navigateToYear(y)
    \/ \E t \in MonthInputs : navigateToMonth(t)
    \/ \E t \in DateInputs : selectDate(t)
    \/ resetToToday
    \/ CalendarClick

SpecNav == Init /\ [][NextNav]_vars

(* Long-term goals with any end date of the date input, added and edited *)

GoalIds == 1..MaxGoals

NextGoals ==
    \/ OpenApp
    \/ CloseApp
    \/ ClockTick
    \/ LoadData
    \/ MidnightTimer
    \/ \E e \in Dates : AddGoal(e)
    \/ \E id \in GoalIds, e \in Dates : UpdateGoal(id, e)

SpecGoals == InitUTC /\ [][NextGoals]_vars

(* The boot sequence of a page load, with the calls the boot context exposes *)

NextBoot ==
    \/ OpenApp
    \/ CloseApp
    \/ ClockTick
    \/ LoadData
    \/ UserInitialized
    \/ ReadyTimeout
    \/ BootTick
    \/ forceReady
    \/ handleBootError

SpecBoot == InitUTC /\ [][NextBoot]_vars

(* Timers fire: time passes on a pending boot timeout *)

SpecBootFair == SpecBoot /\ WF_vars(BootTick)

----------------------------------------------------------------------------
(* Claims *)

SameTasksAndProgress(d) ==
    /\ HasDay(data', d)
    /\ DayOf(data', d).tasks = DayOf(data, d).tasks
    /\ DayOf(data', d).progress = DayOf(data, d).progress

\* C1: a day record dated before currentDate is immutable: no call of addTask,
\* toggleTask, editTask or deleteTask that targets it (by targetDate or by the
\* selected date) changes its task list or its progress, whether or not lockDay
\* was ever applied to it.
C1_PastDaysImmutable ==
    [][TaskOp => \A d \in Dates :
                    (d < currentDate /\ HasDay(data, d)) => SameTasksAndProgress(d)]_vars

\* C2: each firing of the midnight timer locks the day record of the date that
\* was current before the firing and sets currentDate, currentMonth and
\* selectedDate to a new, later date, in every time zone.
C2_MidnightRollsToLaterDate ==
    [][(MidnightTimer /\ ~isLoading) =>
          /\ HasDay(data, currentDate) =>
                 (HasDay(data', currentDate) /\ DayOf(data', currentDate).locked)
          /\ currentDate' > currentDate
          /\ currentMonth' = getMonthFromDate(currentDate')
          /\ selectedDate' = currentDate']_vars

\* C3: once a day record is locked it never changes again: no task operation,
\* setRoutineTasks, lockDay or midnight rollover alters its tasks, progress,
\* locked flag or lockedAt timestamp while the provider runs.
C3_LockedNeverChanges ==
    [][(Ready /\ Ready') =>
          \A d \in Dates :
              (HasDay(data, d) /\ DayOf(data, d).locked) =>
                  (HasDay(data', d) /\ DayOf(data', d) = DayOf(data, d))]_vars

C3_Witness ==
    /\ Ready
    /\ \E d \in Dates :
          /\ HasDay(data, d)
          /\ DayOf(data, d).locked
          /\ DayOf(data, d).lockedAt # NoTime
          /\ Len(DayOf(data, d).tasks) > 0
          /\ selectedDate = d
          /\ currentDate # d

\* C4: in every reachable state each day record's stored progress is the
\* completion percentage of its own task list, round(100 * completed / total),
\* or 0 for an empty list.
C4_ProgressMatchesTasks ==
    Ready => \A d \in Dates :
                 HasDay(data, d) =>
                     DayOf(data, d).progress = calculateProgress(DayOf(data, d).tasks)

GoodDay(dt, d) == HasDay(dt, d) /\ DayOf(dt, d).progress >= StreakThreshold

PriorRun(dt, date) ==
    CHOOSE n \in 0..date :
        /\ \A k \in 1..n : GoodDay(dt, date - k)
        /\ n < date => ~GoodDay(dt, date - n - 1)

\* C5: in every reachable state the streak equals the number of consecutive
\* days immediately before currentDate (currentDate itself not counted) whose
\* day record has stored progress >= 50, capped at 365.
C5_StreakCountsPriorDays ==
    mounted =>
        calculateStreak = IF PriorRun(data, currentDate) > StreakCap THEN StreakCap
                          ELSE PriorRun(data, currentDate)

\* C6: heatmapData has an entry for exactly the dates that have a day record
\* in some month record, and each entry's progress, task count, completed
\* count and locked flag are those of that record.
C6_HeatmapMatchesRecords ==
    mounted =>
        /\ DOMAIN heatmapData = UNION {DOMAIN data[m].days : m \in DOMAIN data}
        /\ \A m \in DOMAIN data : \A d \in DOMAIN data[m].days :
              /\ heatmapData[d].progress = data[m].days[d].progress
              /\ heatmapData[d].tasks = Len(data[m].days[d].tasks)
              /\ heatmapData[d].completed = Completed(data[m].days[d].tasks)
              /\ heatmapData[d].locked = data[m].days[d].locked

C6_Witness ==
    /\ Ready
    /\ Cardinality(DOMAIN data) > 1
    /\ \E d \in DOMAIN heatmapData : HasDay(data, d) /\ DayOf(data, d).locked
    /\ \E d \in DOMAIN heatmapData :
          /\ HasDay(data, d)
          /\ Len(DayOf(data, d).tasks) > 0
          /\ DayOf(data, d).progress # calculateProgress(DayOf(data, d).tasks)

HasAllRoutines(dt, m, d) ==
    /\ HasDayIn(dt, m, d)
    /\ \A i \in 1..Len(dt[m].routines) :
          \E j \in 1..Len(dt[m].days[d].tasks) :
              /\ dt[m].days[d].tasks[j].isRoutine
              /\ dt[m].days[d].tasks[j].name = dt[m].routines[i]
              /\ ~dt[m].days[d].tasks[j].completed

\* C7: every date that becomes the current date, at a load that creates its
\* record or by a midnight rollover to a later date, has in its day record one
\* uncompleted routine task for every routine of its month, also when the
\* record existed before the date became current.
C7_RoutinesAddedToEachDay ==
    [][(\/ (MidnightTimer /\ ~isLoading /\ currentDate' > currentDate)
        \/ (LoadData /\ ~HasDayIn(LoadedData(storage), currentMonth, currentDate)))
       => HasAllRoutines(data', currentMonth', currentDate')]_vars

C9_LoadingCompletes ==
    /\ (mounted /\ isLoading) ~> (~isLoading \/ ~mounted)
    /\ [][LoadData =>
             /\ ~isLoading'
             /\ mounted'
             /\ Throws(storage.productivityData) =>
                    data' = dayInitUpdate(<<>>, currentMonth, currentDate).data
             /\ Throws(storage.goalsData) => goals' = <<>>]_vars

C9_Witness == Ready /\ loadFailed

\* C10: after a valid JSON backup is imported, the value stored under
\* productivityData stays the imported content until the next reload, whatever
\* task operations, month-setup operations or midnight rollovers happen.
C10_ImportSurvivesUntilReload ==
    lastImport # NoImport => storage.productivityData = lastImport

\* C11: a JSON export is a full backup: when the exported file is imported into
\* an installation that started with empty storage and the page is reloaded,
\* the loaded state holds every month record and day record of the export and
\* every long-term goal that existed at export time.
C11_ExportIsFullBackup ==
    [][(/\ LoadData
        /\ emptyInstall
        /\ lastImport # NoImport
        /\ lastImport = exportFile
        /\ storage.productivityData = lastImport)
       => /\ \A m \in DOMAIN JSONparse(exportFile) :
                /\ HasMonth(data', m)
                /\ data'[m].routines = JSONparse(exportFile)[m].routines
                /\ \A d \in DOMAIN JSONparse(exportFile)[m].days :
                       /\ HasDayIn(data', m, d)
                       /\ data'[m].days[d] = JSONparse(exportFile)[m].days[d]
          /\ \A i \in 1..Len(exportedGoals) :
                \E j \in 1..Len(goals') : goals'[j].id = exportedGoals[i].id]_vars

\* C12: Clear All Data acts only with confirmation: a click in the unarmed
\* state removes nothing and resets neither preferences nor notifications; the
\* confirmation is armed only by a click; and productivityData is removed only
\* by a click made while the confirmation is armed.
C12_ClearNeedsConfirmation ==
    [][/\ (handleClearData /\ ~showResetConfirm) =>
              /\ storage' = storage
              /\ settings' = settings
              /\ notifications' = notifications
              /\ prefStorage' = prefStorage
              /\ showResetConfirm'
       /\ (~showResetConfirm /\ showResetConfirm') => handleClearData
       /\ (storage.productivityData # Absent /\ storage'.productivityData = Absent)
              => (handleClearData /\ showResetConfirm)]_vars

C12_Witness ==
    /\ Ready
    /\ storage.productivityData = Absent
    /\ ~showResetConfirm
    /\ TotalTasks(data) > 0
    /\ settings = defaultSettings

TaskIn(dt, d, id) == HasDay(dt, d) /\ HasTask(DayOf(dt, d).tasks, id)

\* C13: after Clear All Data is confirmed, settings and notifications equal
\* their defaults, in memory and as stored, and the stored productivityData
\* holds no task; and after any operation that follows the clear (the provider
\* data then still being the data of before the clear), no task of before the
\* clear is in the provider's data or in the stored productivityData.
C13_ClearDeletesEverything ==
    [][/\ (handleClearData /\ showResetConfirm) =>
              /\ settings' = defaultSettings
              /\ notifications' = <<>>
              /\ LoadedSettings(prefStorage') = defaultSettings
              /\ LoadedNotifications(prefStorage') = <<>>
              /\ TotalTasks(LoadedData(storage')) = 0
       /\ (Ready /\ storage.productivityData = Absent) =>
              \A d \in Dates, id \in TaskIds :
                  TaskIn(data, d, id) =>
                      /\ ~TaskIn(data', d, id)
                      /\ ~TaskIn(LoadedData(storage'), d, id)]_vars

C15_BootErrorReachesErrorState ==
    [][(handleBootError /\ bootState = BOOTING) =>
          bootState' = ERROR /\ isError(bootState')]_vars

C17_ActiveGoalsNotPastEnd ==
    Ready =>
        \A i \in 1..Len(goals) :
            goals[i].state = "active" => goals[i].endDate >= currentDate

\* C18: the Month Setup modal is opened automatically, by the effect that
\* follows loading or a midnight rollover, only when currentDate is the first
\* day of its month and that month's setupComplete is false.
C18_AutoOpenOnlyOnFirstDay ==
    [][(~showMonthSetup /\ showMonthSetup' /\ (LoadData \/ MidnightTimer)) =>
          /\ DayOfMonth(currentDate') = 1
          /\ HasMonth(data', currentMonth')
          /\ ~data'[currentMonth'].setupComplete]_vars

NumericYear(year) ==
    IF year.isString
    THEN /\ Len(year.text) > 0
         /\ \A i \in 1..Len(year.text) : IsDigit(year.text[i])
         /\ DigitsValue(year.text) \in MinYear..MaxYear
    ELSE year.num \in MinYear..MaxYear

\* C19: invalid navigation input is rejected without effect: navigateToYear
\* with a value that is not numeric or lies outside 2020..2100, navigateToMonth
\* with a text not of the form YYYY-MM, and selectDate with a text not of the
\* form YYYY-MM-DD leave viewYear, viewMonth and viewDate unchanged.
C19_InvalidNavigationRejected ==
    [][/\ \A y \in YearInputs :
              (navigateToYear(y) /\ ~NumericYear(y)) =>
                  UNCHANGED <<viewYear, viewMonth, selectedDate>>
       /\ \A t \in MonthInputs :
              (navigateToMonth(t) /\ ~MatchesMonthKey(t)) =>
                  UNCHANGED <<viewYear, viewMonth, selectedDate>>
       /\ \A t \in DateInputs :
              (selectDate(t) /\ ~MatchesDateStr(t)) =>
                  UNCHANGED <<viewYear, viewMonth, selectedDate>>]_vars

\* C20: the view fields update together: whenever viewDate changes while the
\* provider is mounted, viewMonth and viewYear are the month and the year of
\* the new viewDate.
C20_ViewFieldsUpdateTogether ==
    [][(mounted /\ mounted' /\ selectedDate' # selectedDate) =>
          /\ viewMonth' = getMonthFromDate(selectedDate')
          /\ viewYear' = YearOfDate(selectedDate')]_vars

====
